---------------------------- MODULE Spec2Model ----------------------------
(***************************************************************************)
(* A model of ost_parser: the mixer-frequency classifier                   *)
(* (analysis/l302_mixer.py), the script parsers and the Execution          *)
(* assembler (core.py) and the base band records (vci.py).                 *)
(*                                                                         *)
(* Every component is a one-shot transformation of immutable inputs, so    *)
(* each has a specification of its own: Init draws the inputs from bounded *)
(* sets, one action applies the function as the code computes it.  The     *)
(* variables of the other components stay at their idle values.            *)
(*                                                                         *)
(* Python exceptions are modelled as values: a function that raises        *)
(* returns the name of the exception class ("ParseError", "ValueError",    *)
(* "KeyError", "IndexError", "AssertionError", "FileNotFoundError").       *)
(* Frequencies are real numbers in the code; only their order is used by   *)
(* the classifier, so they are drawn from a range of integers.             *)
(***************************************************************************)
EXTENDS Integers, Sequences, FiniteSets, TLC

\* ------------------------------------------------------------------ bounds
\* Frequencies are drawn from 0..MaxFreq.
MaxFreq == 3
\* The array-configuration header declares 1..MaxConfigs entries.
MaxConfigs == 2
\* The inQuant attribute of a baseBand element is drawn from 0..MaxInQuant.
MaxInQuant == 9
\* A script holds at most MaxBlocks scan blocks.
MaxBlocks == 2
\* Scan numbers are drawn from 1..MaxIx.
MaxIx == 2
\* LOIF identifiers are loif1..loif<MaxLoif>.
MaxLoif == 2
\* The ScanIntent strings are drawn from 1..MaxIntent.
MaxIntent == 2
\* An observation directory holds at most MaxVci `.vci` files.
MaxVci == 2
\* A batch run reads 1..MaxPaths observation directories.
MaxPaths == 2
\* A VCI document holds 1..MaxBb base bands of 1..MaxSb sub-bands each.
MaxBb == 2
MaxSb == 2

VARIABLES
    f_opt,      \* mixer_flag_from_freqs: the frequency classified
    f_min,      \* mixer_flag_from_freqs: lower edge of the window
    f_max,      \* mixer_flag_from_freqs: upper edge of the window
    mflag,      \* mixer_flag_from_freqs: "NONE" before the call, then the
                \* MixerFlag returned or the exception raised
    array_conf, \* EvlaFile: the text after "#   Array Configurations: " up to
                \* the end of that line, as a sequence of characters; <<>>
                \* when the text has no such line
    max_config, \* EvlaFile.max_config: "NONE" before parse_max_config, then
                \* the character returned or the exception raised
    bb_element, \* BaseBand.element: the attributes of one baseBand element
    bb_props,   \* the properties read off the BaseBand (read = FALSE before)
    lines,      \* EvlaScan.from_evla_text: efile.text.split("\n"), each line
                \* by the pattern it matches
    scan_result,\* EvlaScan.from_evla_text: raised = "pending" before the
                \* call, then "no" and the list returned, or the exception
    dir,        \* Execution.__init__: the observation directory at path
    ex,         \* Execution.__init__: raised = "pending" before the call,
                \* then "no" and the object's fields, or the exception
    flag_ex,    \* get_used_flag: the configs_by_loif of the Execution given
    flag_result,\* get_used_flag: "pending" before the call, then the
                \* MixerFlag returned or the exception raised
    batch_paths,\* read_all_executions: the paths of get_program_paths
    batch_execs,\* read_all_executions: execs so far, one entry per path read
    batch_warned,\* the paths (by position) a warning was issued for
    batch_out,  \* read_all_executions: "running", then "returned" and the
                \* list returned, or the exception that left the call
    valid_ex,   \* all_invalid / to_pandas: the configs_by_loif of self
    all_invalid_result, \* Execution.all_invalid: "pending" before it is read,
                \* then "True", "False" or the exception raised
    to_pandas_result,   \* Execution.to_pandas: "pending" before the call,
                \* then "table" or the exception raised
    setup_group,\* LoIfSetup.__init__: the fields of one matched record (MHz)
    loif_setup  \* LoIfSetup.__init__: the attributes set (built = FALSE before)

mixerVars == <<f_opt, f_min, f_max, mflag>>
efileVars == <<array_conf, max_config>>
bbVars == <<bb_element, bb_props>>
scanVars == <<lines, scan_result>>
execVars == <<dir, ex>>
flagVars == <<flag_ex, flag_result>>
batchVars == <<batch_paths, batch_execs, batch_warned, batch_out>>
validVars == <<valid_ex, all_invalid_result, to_pandas_result>>
setupVars == <<setup_group, loif_setup>>

vars ==
    <<mixerVars, efileVars, bbVars, scanVars, execVars, flagVars, batchVars,
      validVars, setupVars>>

\* ============================================================== l302_mixer
\* class MixerFlag(Enum)
MixerFlag == {"OKAY", "BELOW", "ABOVE", "FAIL"}

\* mixer_flag_from_freqs with the OKAY test written with < instead of <=.
mixer_flag_from_freqs_open(f, lo, hi) ==
    IF lo > hi THEN "FAIL"
    ELSE IF f < lo /\ lo < hi THEN "BELOW"
    ELSE IF lo < hi /\ hi < f THEN "ABOVE"
    ELSE IF lo < f /\ f < hi THEN "OKAY"
    ELSE "ValueError"

\* mixer_flag_from_freqs with the empty-window test written >= instead of >.
mixer_flag_from_freqs_ge(f, lo, hi) ==
    IF lo >= hi THEN "FAIL"
    ELSE IF f < lo /\ lo < hi THEN "BELOW"
    ELSE IF lo < hi /\ hi < f THEN "ABOVE"
    ELSE IF lo <= f /\ f <= hi THEN "OKAY"
    ELSE "ValueError"

\* mixer_flag_from_freqs(f_opt, f_min, f_max): the if/elif chain, in order;
\* a chained comparison a < b < c is (a < b) and (b < c).
mixer_flag_from_freqs(f, lo, hi) ==
    IF lo > hi THEN "FAIL"
    ELSE IF f < lo /\ lo < hi THEN "BELOW"
    ELSE IF lo < hi /\ hi < f THEN "ABOVE"
    ELSE IF lo <= f /\ f <= hi THEN "OKAY"
    ELSE "ValueError"

MixerIdle ==
    /\ f_opt = 0
    /\ f_min = 0
    /\ f_max = 0
    /\ mflag = "NONE"

EfileIdle ==
    /\ array_conf = <<>>
    /\ max_config = "NONE"

BbIdle ==
    /\ bb_element = [inQuant |-> 0, name |-> "None"]
    /\ bb_props = [read |-> FALSE, is_3bit |-> FALSE, is_8bit |-> FALSE]

ScanIdle ==
    /\ lines = <<>>
    /\ scan_result = [raised |-> "pending", scans |-> <<>>]

\* An Execution before or without construction: no field is set.
NoExecution(raised) ==
    [raised |-> raised, loif_setups |-> {}, loif_offsets |-> {},
     scans |-> <<>>, scan_keys |-> <<>>, configs_by_scan |-> <<>>,
     configs_by_loif |-> <<>>]

NoDirectory ==
    [exists |-> FALSE, n_evla |-> 0, vci |-> <<>>, efile |-> "no",
     setups |-> {}, offsets |-> {},
     scans |-> [raised |-> "no", scans |-> <<>>]]

ExecIdle ==
    /\ dir = NoDirectory
    /\ ex = NoExecution("pending")

FlagIdle ==
    /\ flag_ex = <<>>
    /\ flag_result = "pending"

BatchIdle ==
    /\ batch_paths = <<>>
    /\ batch_execs = <<>>
    /\ batch_warned = {}
    /\ batch_out = [state |-> "running", list |-> <<>>]

ValidIdle ==
    /\ valid_ex = <<>>
    /\ all_invalid_result = "pending"
    /\ to_pandas_result = "pending"

\* A LoIfSetup before construction: no attribute is set.
NoLoIfSetup ==
    [built |-> FALSE, mode |-> FALSE, bb_ac1 |-> 0, bb_ac2 |-> 0,
     bb_bd1 |-> 0, bb_bd2 |-> 0, is_8bit |-> FALSE, is_3bit |-> FALSE]

SetupIdle ==
    /\ setup_group = [mode |-> FALSE, ac1 |-> 0, ac2 |-> 0, bd1 |-> 0, bd2 |-> 0]
    /\ loif_setup = NoLoIfSetup

\* Every component but c is idle / is left as it is.
OthersIdle(c) ==
    /\ IF c = "mixer" THEN TRUE ELSE MixerIdle
    /\ IF c = "efile" THEN TRUE ELSE EfileIdle
    /\ IF c = "bb" THEN TRUE ELSE BbIdle
    /\ IF c = "scan" THEN TRUE ELSE ScanIdle
    /\ IF c = "exec" THEN TRUE ELSE ExecIdle
    /\ IF c = "flag" THEN TRUE ELSE FlagIdle
    /\ IF c = "batch" THEN TRUE ELSE BatchIdle
    /\ IF c = "valid" THEN TRUE ELSE ValidIdle
    /\ IF c = "setup" THEN TRUE ELSE SetupIdle

OthersUnchanged(c) ==
    /\ IF c = "mixer" THEN TRUE ELSE UNCHANGED mixerVars
    /\ IF c = "efile" THEN TRUE ELSE UNCHANGED efileVars
    /\ IF c = "bb" THEN TRUE ELSE UNCHANGED bbVars
    /\ IF c = "scan" THEN TRUE ELSE UNCHANGED scanVars
    /\ IF c = "exec" THEN TRUE ELSE UNCHANGED execVars
    /\ IF c = "flag" THEN TRUE ELSE UNCHANGED flagVars
    /\ IF c = "batch" THEN TRUE ELSE UNCHANGED batchVars
    /\ IF c = "valid" THEN TRUE ELSE UNCHANGED validVars
    /\ IF c = "setup" THEN TRUE ELSE UNCHANGED setupVars

InitMixer ==
    /\ f_opt \in 0..MaxFreq
    /\ f_min \in 0..MaxFreq
    /\ f_max \in 0..MaxFreq
    /\ mflag = "NONE"
    /\ OthersIdle("mixer")

\* One call of mixer_flag_from_freqs on the inputs drawn.
MixerClassify ==
    /\ mflag = "NONE"
    /\ mflag' = mixer_flag_from_freqs(f_opt, f_min, f_max)
    /\ UNCHANGED <<f_opt, f_min, f_max>>
    /\ OthersUnchanged("mixer")

NextMixer == MixerClassify

SpecMixer == InitMixer /\ [][NextMixer]_vars

\* C1: whenever f_min <= f_max, the call returns one of OKAY, BELOW, ABOVE
\* and never reaches the final raise ValueError.
C1_TotalOnOrderedWindow ==
    (mflag # "NONE" /\ f_min <= f_max) => mflag \in {"OKAY", "BELOW", "ABOVE"}

\* C2: the call returns FAIL exactly when f_min > f_max, whatever f is.
C2_FailIffEmptyWindow ==
    mflag # "NONE" => (mflag = "FAIL" <=> f_min > f_max)

\* C2 witness: an empty window classified, with f inside neither bound's side
\* that would otherwise give OKAY (f lies between f_max and f_min).
C2_Witness ==
    /\ mflag = "FAIL"
    /\ f_min > f_max
    /\ f_max < f_opt
    /\ f_opt < f_min

\* C18: when f_min < f_max the call returns BELOW exactly when f < f_min,
\* ABOVE exactly when f > f_max and OKAY exactly when f_min <= f <= f_max.
C18_ClosedWindow ==
    (mflag # "NONE" /\ f_min < f_max) =>
        /\ mflag = "BELOW" <=> f_opt < f_min
        /\ mflag = "ABOVE" <=> f_opt > f_max
        /\ mflag = "OKAY" <=> (f_min <= f_opt /\ f_opt <= f_max)

\* C18 witness: f on the upper edge of a window that is not empty has been
\* classified OKAY.
C18_Witness ==
    /\ mflag = "OKAY"
    /\ f_min < f_max
    /\ f_opt = f_max

\* ================================================================ EvlaFile
\* The characters the array-configuration header is written with, and
\* Python's ord() of each.
Chars == {" ", ",", "=", ">", "A", "B", "C", "D", "N", "n", "y"}

Ord(c) ==
    CASE c = " " -> 32
      [] c = "," -> 44
      [] c = "=" -> 61
      [] c = ">" -> 62
      [] c = "A" -> 65
      [] c = "B" -> 66
      [] c = "C" -> 67
      [] c = "D" -> 68
      [] c = "N" -> 78
      [] c = "n" -> 110
      [] c = "y" -> 121

\* EvlaFile.config_max_baselines (metres)
config_max_baselines ==
    [c \in {"A", "B", "C", "D"} |->
        CASE c = "A" -> 36400
          [] c = "B" -> 11100
          [] c = "C" -> 3400
          [] c = "D" -> 1030]

\* str.split(","): the pieces between the commas, empty pieces kept.
RECURSIVE SplitFrom(_, _)
SplitFrom(s, cur) ==
    IF s = <<>> THEN <<cur>>
    ELSE IF Head(s) = "," THEN <<cur>> \o SplitFrom(Tail(s), <<>>)
    ELSE SplitFrom(Tail(s), Append(cur, Head(s)))

SplitComma(s) == SplitFrom(s, <<>>)

\* str.strip(): leading and trailing white space removed.
RECURSIVE LStrip(_)
LStrip(s) ==
    IF s # <<>> /\ Head(s) = " " THEN LStrip(Tail(s)) ELSE s

RECURSIVE RStrip(_)
RStrip(s) ==
    IF s # <<>> /\ s[Len(s)] = " " THEN RStrip(SubSeq(s, 1, Len(s) - 1)) ELSE s

Strip(s) == RStrip(LStrip(s))

\* str.replace("=>", "") with the replacement left out.
ReplaceArrowKept(s) == s

\* str.replace("=>", ""): every occurrence removed, left to right.
RECURSIVE ReplaceArrowFrom(_)
ReplaceArrowFrom(s) ==
    IF s = <<>> THEN <<>>
    ELSE IF Len(s) >= 2 /\ s[1] = "=" /\ s[2] = ">"
         THEN ReplaceArrowFrom(SubSeq(s, 3, Len(s)))
    ELSE <<Head(s)>> \o ReplaceArrowFrom(Tail(s))

ReplaceArrow(s) == ReplaceArrowFrom(s)

\* min() of a string or of a list of one-character strings: the character
\* of least ord(); ValueError on an empty argument.
MinChar(s) ==
    IF s = <<>> THEN "ValueError"
    ELSE LET i == CHOOSE j \in 1..Len(s) :
                      \A k \in 1..Len(s) : Ord(s[j]) <= Ord(s[k])
         IN  s[i]

\* EvlaFile.parse_max_config(text).  group is array_conf; the list
\* comprehension raises ValueError as soon as one piece is empty.
parse_max_config(group) ==
    IF group = <<>> THEN "ParseError"
    ELSE LET pieces  == SplitComma(group)
             configs == [i \in 1..Len(pieces) |->
                             MinChar(ReplaceArrow(Strip(pieces[i])))]
         IN  IF \E i \in 1..Len(configs) : configs[i] = "ValueError"
             THEN "ValueError"
             ELSE MinChar(configs)

\* The declared configurations the header is drawn from: the four plain
\* configurations, the hybrids, "Any", and a move X=>Y between two of the
\* plain or hybrid ones.
PlainConfigs == {<<"A">>, <<"B">>, <<"C">>, <<"D">>}
HybridConfigs == {<<"B", "N", "A">>, <<"C", "N", "B">>, <<"D", "N", "C">>}
MoveConfigs ==
    {x \o <<"=", ">">> \o y : x, y \in PlainConfigs \cup HybridConfigs}
AnyConfig == <<"A", "n", "y">>
ConfigEntries == PlainConfigs \cup HybridConfigs \cup MoveConfigs \cup {AnyConfig}

\* The header text of a list of entries: "C=>CNB, CNB=>B".
RECURSIVE JoinEntries(_)
JoinEntries(es) ==
    IF Len(es) = 1 THEN es[1]
    ELSE es[1] \o <<",", " ">> \o JoinEntries(Tail(es))

RECURSIVE SeqsUpTo(_, _)
SeqsUpTo(S, n) ==
    IF n = 0 THEN {<<>>}
    ELSE LET shorter == SeqsUpTo(S, n - 1)
         IN  shorter \cup {Append(q, x) : q \in shorter, x \in S}

\* The headers of 1..n entries.
ArrayConfLines(n) ==
    {JoinEntries(es) : es \in SeqsUpTo(ConfigEntries, n) \ {<<>>}}

InitEfile ==
    /\ array_conf \in ArrayConfLines(MaxConfigs) \cup {<<>>}
    /\ max_config = "NONE"
    /\ OthersIdle("efile")

\* EvlaFile.__init__, up to self.max_config.
ParseMaxConfig ==
    /\ max_config = "NONE"
    /\ max_config' = parse_max_config(array_conf)
    /\ UNCHANGED array_conf
    /\ OthersUnchanged("efile")

NextEfile == ParseMaxConfig

SpecEfile == InitEfile /\ [][NextEfile]_vars

\* The configuration letters A-D that occur in the header, and the first of
\* them in the alphabet (the longest baseline).
ConfigLetters(group) ==
    {group[i] : i \in 1..Len(group)} \cap {"A", "B", "C", "D"}

Alphabet == <<"A", "B", "C", "D">>

FirstLetter(S) ==
    Alphabet[CHOOSE i \in 1..4 :
                 /\ Alphabet[i] \in S
                 /\ \A j \in 1..4 : Alphabet[j] \in S => i <= j]

\* C9: for a header of plain, hybrid, move and "Any" entries,
\* parse_max_config returns the configuration letter of A-D that comes
\* first in the alphabet over all entries; the result is a key of
\* config_max_baselines and parse_max_config of the result is the result.
C9_MaxConfigIsFirstLetter ==
    (max_config # "NONE" /\ array_conf # <<>>) =>
        /\ max_config = FirstLetter(ConfigLetters(array_conf))
        /\ max_config \in DOMAIN config_max_baselines
        /\ parse_max_config(<<max_config>>) = max_config

\* C9 witness: the header "C=>CNB, CNB=>B" has been parsed to "B".
C9_Witness ==
    /\ array_conf = <<"C", "=", ">", "C", "N", "B", ",", " ",
                      "C", "N", "B", "=", ">", "B">>
    /\ max_config = "B"

\* ===================================================================== vci
\* BaseBand.inQuant
inQuant(element) == element.inQuant

\* BaseBand.is_3bit
is_3bit(element) == inQuant(element) = 3

\* BaseBand.is_8bit
is_8bit(element) == inQuant(element) = 8

\* The names a baseBand element carries: the 8-bit and 3-bit pairs of
\* LoIfSetup._bb_map, and "None" when the attribute is absent.
BaseBandNames ==
    {"A0/C0", "B0/D0", "A1/C1", "A2/C2", "B1/D1", "B2/D2", "None"}

InitBb ==
    /\ bb_element \in [inQuant : 0..MaxInQuant, name : BaseBandNames]
    /\ bb_props = [read |-> FALSE, is_3bit |-> FALSE, is_8bit |-> FALSE]
    /\ OthersIdle("bb")

\* The sampler properties of one BaseBand are read.
BaseBandRead ==
    /\ ~bb_props.read
    /\ bb_props' = [read |-> TRUE,
                    is_3bit |-> is_3bit(bb_element),
                    is_8bit |-> is_8bit(bb_element)]
    /\ UNCHANGED bb_element
    /\ OthersUnchanged("bb")

NextBb == BaseBandRead

SpecBb == InitBb /\ [][NextBb]_vars

\* C10: for every inQuant a BaseBand carries, exactly one of is_3bit and
\* is_8bit is true.
C10_SamplerComplementary ==
    bb_props.read => (bb_props.is_3bit # bb_props.is_8bit)

\* Whatever inQuant is, is_3bit and is_8bit are never both true.
BaseBandSamplerExclusive ==
    bb_props.read => ~(bb_props.is_3bit /\ bb_props.is_8bit)

\* ================================================================ EvlaScan
\* A line of the script is kept as the pattern of EvlaScan it matches:
\*   "scan"   p_scan, arg the scan number      "time"   p_time
\*   "intent" p_intent, arg the intent string  "loif"   p_loif_old/p_loif_new
\*   "blank"  line.strip() == ""               "other"  none of these
\* (p_loif is the pattern of the script's dialect; a LOIF line of the other
\* dialect is "other").  The field name, DB id and times of a scan are matched
\* but not kept.  The initial "NULL" of loif and intents is 0.
NULL == 0

Line(kind, arg) == [kind |-> kind, arg |-> arg]

Raise(exc) == [raised |-> exc, scans |-> <<>>]

\* EvlaScan.__init__(group)
EvlaScan(ix, loif, intents) == [ix |-> ix, loif |-> loif, intents |-> intents]

\* The inner loop "for peek in lines[i:]": how it ends ("blank": break on a
\* blank line, "loif": break on a LOIF-selection line, "end": the else
\* branch, the lines are used up) and the id matched.
RECURSIVE PeekLoif(_, _)
PeekLoif(ls, j) ==
    IF j > Len(ls) THEN [how |-> "end", id |-> NULL]
    ELSE IF ls[j].kind = "blank" THEN [how |-> "blank", id |-> NULL]
    ELSE IF ls[j].kind = "loif" THEN [how |-> "loif", id |-> ls[j].arg]
    ELSE PeekLoif(ls, j + 1)

\* The outer loop of EvlaScan.from_evla_text from line i on (lines are
\* numbered from 1 here), with the loif and intents carried so far.
RECURSIVE ScanLoop(_, _, _, _, _)
ScanLoop(ls, i, loif, intents, scans) ==
    IF i > Len(ls) THEN [raised |-> "no", scans |-> scans]
    ELSE IF ls[i].kind # "scan" THEN ScanLoop(ls, i + 1, loif, intents, scans)
    ELSE IF i + 1 > Len(ls) THEN Raise("IndexError")
    ELSE IF ls[i + 1].kind # "time" THEN Raise("ParseError")
    ELSE IF i + 2 > Len(ls) THEN Raise("IndexError")
    ELSE LET intents2 == IF ls[i + 2].kind = "intent"
                         THEN ls[i + 2].arg ELSE intents
             peek     == PeekLoif(ls, i)
             loif2    == IF peek.how = "loif" THEN peek.id ELSE loif
         IN  IF intents2 = NULL THEN Raise("ParseError")
             ELSE IF peek.how = "end" THEN Raise("ParseError")
             ELSE IF loif2 = NULL THEN Raise("ParseError")
             ELSE ScanLoop(ls, i + 1, loif2, intents2,
                           Append(scans, EvlaScan(ls[i].arg, loif2, intents2)))

\* EvlaScan.from_evla_text(efile)
from_evla_text(ls) == ScanLoop(ls, 1, NULL, NULL, <<>>)

\* The scripts drawn: up to n scan blocks, each a scan header with
\* or without its time line and intent line, then a LOIF-selection line or
\* some other statement or nothing, then a blank line or not.  A text split
\* on "\n" has at least one line.
BlockHeads ==
    UNION {{<<Line("scan", ix)>>, <<Line("scan", ix), Line("time", 0)>>}
           \cup {<<Line("scan", ix), Line("time", 0), Line("intent", v)>> :
                     v \in 1..MaxIntent} : ix \in 1..MaxIx}

BlockBodies ==
    {<<>>, <<Line("other", 0)>>} \cup {<<Line("loif", n)>> : n \in 1..MaxLoif}

BlockEnds == {<<>>, <<Line("blank", 0)>>}

Blocks == {h \o b \o e : h \in BlockHeads, b \in BlockBodies, e \in BlockEnds}

RECURSIVE Flatten(_)
Flatten(bs) == IF bs = <<>> THEN <<>> ELSE Head(bs) \o Flatten(Tail(bs))

Scripts(n) ==
    {Flatten(bs) : bs \in SeqsUpTo(Blocks, n) \ {<<>>}}
        \cup {<<Line("blank", 0)>>}

InitScan ==
    /\ lines \in Scripts(MaxBlocks)
    /\ scan_result = [raised |-> "pending", scans |-> <<>>]
    /\ OthersIdle("scan")

\* One call of EvlaScan.from_evla_text on the script drawn.
ParseScans ==
    /\ scan_result.raised = "pending"
    /\ scan_result' = from_evla_text(lines)
    /\ UNCHANGED lines
    /\ OthersUnchanged("scan")

NextScan == ParseScans

SpecScan == InitScan /\ [][NextScan]_vars

\* The positions of the scan headers, in order, and the lines of scan block
\* k: from its header up to, not including, the next header.
HeaderPositions(ls) ==
    LET P == {i \in 1..Len(ls) : ls[i].kind = "scan"}
    IN  [k \in 1..Cardinality(P) |->
            CHOOSE i \in P : Cardinality({j \in P : j < i}) = k - 1]

BlockLast(ls, k) ==
    LET hp == HeaderPositions(ls)
    IN  IF k < Len(hp) THEN hp[k + 1] - 1 ELSE Len(ls)

\* The lines of block k at which a LOIF-selection line stands before the
\* block's first blank line.
ExplicitLoifAt(ls, k) ==
    LET hp == HeaderPositions(ls)
    IN  {i \in hp[k]..BlockLast(ls, k) :
            /\ ls[i].kind = "loif"
            /\ \A j \in hp[k]..i : ls[j].kind # "blank"}

FirstOf(S) == CHOOSE i \in S : \A j \in S : i <= j

\* C4: in the list returned, the loif of scan block k is the id of the
\* block's own LOIF-selection line when it has one before its first blank
\* line, and the loif of block k-1 otherwise; and when the first scan block
\* has no LOIF-selection line the call raises ParseError.
C4_LoifCarriedForward ==
    scan_result.raised # "pending" =>
        LET hp == HeaderPositions(lines)
            scans == scan_result.scans
        IN  /\ scan_result.raised = "no" =>
                /\ Len(scans) = Len(hp)
                /\ \A k \in 1..Len(scans) :
                       IF ExplicitLoifAt(lines, k) # {}
                       THEN scans[k].loif =
                                lines[FirstOf(ExplicitLoifAt(lines, k))].arg
                       ELSE k > 1 /\ scans[k].loif = scans[k - 1].loif
            /\ (Len(hp) >= 1 /\ ExplicitLoifAt(lines, 1) = {}) =>
                   scan_result.raised = "ParseError"

\* Scan block k has an intent-declaration line two lines after its header.
IntentAt(ls, k) ==
    LET hp == HeaderPositions(ls)
    IN  /\ hp[k] + 2 <= Len(ls)
        /\ ls[hp[k] + 2].kind = "intent"

\* C13: in the list returned, the intents of scan block k are those of the
\* block's own intent-declaration line when it has one, and those of block
\* k-1 otherwise, and never the unset NULL; and when the first scan block
\* has no intent-declaration line the call raises ParseError.
C13_IntentsSticky ==
    scan_result.raised # "pending" =>
        LET hp == HeaderPositions(lines)
            scans == scan_result.scans
        IN  /\ scan_result.raised = "no" =>
                /\ Len(scans) = Len(hp)
                /\ \A k \in 1..Len(scans) :
                       /\ scans[k].intents # NULL
                       /\ IF IntentAt(lines, k)
                          THEN scans[k].intents = lines[hp[k] + 2].arg
                          ELSE k > 1 /\ scans[k].intents = scans[k - 1].intents
            /\ (Len(hp) >= 1 /\ ~IntentAt(lines, 1)) =>
                   scan_result.raised = "ParseError"

\* C14: when some scan-header line is not followed by a timing-comment
\* line, be it followed by another line or the last line of the text, the
\* call raises ParseError.
C14_MissingTimeIsParseError ==
    (/\ scan_result.raised # "pending"
     /\ \E i \in 1..Len(lines) :
            /\ lines[i].kind = "scan"
            /\ (i + 1 > Len(lines) \/ lines[i + 1].kind # "time"))
        => scan_result.raised = "ParseError"

\* C17: the list returned is in strictly increasing scan number, so no two
\* of its scans share a number.
C17_ScanIndexStrictlyIncreasing ==
    scan_result.raised = "no" =>
        \A k \in 1..(Len(scan_result.scans) - 1) :
            scan_result.scans[k].ix < scan_result.scans[k + 1].ix

\* The ids of the LOIF-selection lines of scan block k.
BlockLoifs(ls, k) ==
    LET hp == HeaderPositions(ls)
    IN  {ls[i].arg : i \in {j \in hp[k]..BlockLast(ls, k) : ls[j].kind = "loif"}}

\* C20: in the list returned, the loif of scan block k is the id of a
\* LOIF-selection line of block k itself (from its header up to the next
\* header) or the loif carried forward from block k-1, never the id of a
\* line of a later block.
C20_LoifFromOwnBlock ==
    scan_result.raised = "no" =>
        \A k \in 1..Len(scan_result.scans) :
            \/ scan_result.scans[k].loif \in BlockLoifs(lines, k)
            \/ k > 1 /\ scan_result.scans[k].loif = scan_result.scans[k - 1].loif

\* =============================================================== Execution
\* An observation directory, by what Execution.__init__ reads from it:
\*   exists   path.exists()
\*   n_evla   the number of `.evla` files
\*   vci      the `.vci` documents in sorted file order, each with its
\*            scanId and the scanNum of its configId (NoScanNum when the
\*            configId has no "_scan<digits>")
\*   efile    "no", or the exception EvlaFile(path) raises
\*   setups   the keys of LoIfSetup.from_evla_text (empty: no record matched)
\*   offsets  the keys of LoIfOffset.from_evla_text
\*   scans    the outcome of EvlaScan.from_evla_text
\* A LOIF record is kept as its key: loif<n> is n.
NoScanNum == 0

\* VCI.scanNum raises ValueError when p_scan does not match the configId.
scanNumRaises(v) == v.scanNum = NoScanNum

MaxOf(S) == CHOOSE n \in S : \A m \in S : m <= n

\* get_vci, the inner function of get_vci_for_scans, with min for max.
get_vci_min(s_ix, vci) ==
    LET nums == {vci[k].scanNum : k \in 1..Len(vci)}
        v_ix == CHOOSE n \in {i \in nums : i <= s_ix} :
                    \A m \in {i \in nums : i <= s_ix} : n <= m
        last == MaxOf({k \in 1..Len(vci) : vci[k].scanNum = v_ix})
    IN  vci[last]

\* get_vci(s_ix), the inner function of Execution.get_vci_for_scans, when
\* some document has scanNum <= s_ix; vci_by_scan = {v.scanNum: v for v in
\* vci} keeps the last document of each scanNum.
get_vci(s_ix, vci) ==
    LET nums == {vci[k].scanNum : k \in 1..Len(vci)}
        v_ix == MaxOf({i \in nums : i <= s_ix})
        last == MaxOf({k \in 1..Len(vci) : vci[k].scanNum = v_ix})
    IN  vci[last]

\* get_vci_for_scans falling back on the earliest document where max()
\* would get an empty list.
get_vci_for_scans_nearest(scans, vci) ==
    LET scan_nums == {scans[k].ix : k \in 1..Len(scans)}
        nums      == {vci[k].scanNum : k \in 1..Len(vci)}
        earliest  == CHOOSE k \in 1..Len(vci) :
                         \A j \in 1..Len(vci) : vci[k].scanNum <= vci[j].scanNum
    IN  IF \E k \in 1..Len(vci) : scanNumRaises(vci[k])
        THEN [raised |-> "ValueError", vci_by_scan |-> <<>>]
        ELSE [raised |-> "no",
              vci_by_scan |->
                  [i \in scan_nums |->
                      IF \E n \in nums : n <= i THEN get_vci(i, vci)
                      ELSE vci[earliest]]]

\* Execution.get_vci_for_scans(scans, vci): ValueError when a scanNum
\* cannot be read or max() gets an empty list, else the dict as a function
\* of the scan numbers.
get_vci_for_scans(scans, vci) ==
    LET scan_nums == {scans[k].ix : k \in 1..Len(scans)}
    IN  IF \E k \in 1..Len(vci) : scanNumRaises(vci[k])
        THEN [raised |-> "ValueError", vci_by_scan |-> <<>>]
        ELSE IF \E i \in scan_nums :
                    \A k \in 1..Len(vci) : vci[k].scanNum > i
        THEN [raised |-> "ValueError", vci_by_scan |-> <<>>]
        ELSE [raised |-> "no",
              vci_by_scan |-> [i \in scan_nums |-> get_vci(i, vci)]]

\* WidarConfig(scan, loif_setup, loif_offset, vci)
WidarConfig(scan, vci) ==
    [scan |-> scan, loif_setup |-> scan.loif, loif_offset |-> scan.loif,
     vci |-> vci]

\* The keys of a dict built from a list, in the order they are first set.
RECURSIVE KeyOrder(_, _)
KeyOrder(scans, seen) ==
    IF scans = <<>> THEN <<>>
    ELSE IF Head(scans).ix \in seen THEN KeyOrder(Tail(scans), seen)
    ELSE <<Head(scans).ix>> \o KeyOrder(Tail(scans), seen \cup {Head(scans).ix})

\* assert len(loif_setups) == len(loif_offsets)
SameLoifs(setups, offsets) == Cardinality(setups) = Cardinality(offsets)

\* The checks of the files with the test for more than one `.evla` file
\* left out.
read_files_first_evla(d) ==
    IF ~d.exists THEN "FileNotFoundError"
    ELSE IF d.n_evla = 0 THEN "ParseError"
    ELSE IF d.vci = <<>> THEN "ParseError"
    ELSE "no"

\* Execution.__init__, the checks of path and of the files found in it: the
\* exception raised, or "no".
read_files(d) ==
    IF ~d.exists THEN "FileNotFoundError"
    ELSE IF d.n_evla = 0 THEN "ParseError"
    ELSE IF d.vci = <<>> THEN "ParseError"
    ELSE IF d.n_evla > 1 THEN "ParseError"
    ELSE "no"

\* Execution.__init__(path): the exception raised, in the order the code
\* meets them, or "no" and the fields of the object.  In a dict built from
\* the scans a later scan replaces an earlier one of the same number.
Execution(d) ==
    IF read_files(d) # "no" THEN NoExecution(read_files(d))
    ELSE IF d.efile # "no" THEN NoExecution(d.efile)
    ELSE IF d.setups = {} THEN NoExecution("ParseError")
    ELSE IF d.offsets = {} THEN NoExecution("ParseError")
    ELSE IF d.scans.raised # "no" THEN NoExecution(d.scans.raised)
    ELSE IF ~SameLoifs(d.setups, d.offsets) THEN NoExecution("AssertionError")
    ELSE LET scans       == d.scans.scans
             resolved    == get_vci_for_scans(scans, d.vci)
             vci_by_scan == resolved.vci_by_scan
             keys        == KeyOrder(scans, {})
             lastOf(i)   == scans[MaxOf({k \in 1..Len(scans) : scans[k].ix = i})]
         IN  IF resolved.raised # "no" THEN NoExecution(resolved.raised)
             ELSE IF \E k \in 1..Len(scans) :
                         \/ scans[k].loif \notin d.setups
                         \/ scans[k].loif \notin d.offsets
             THEN NoExecution("KeyError")
             ELSE LET configs_by_scan ==
                          [i \in {scans[k].ix : k \in 1..Len(scans)} |->
                              WidarConfig(lastOf(i), vci_by_scan[i])]
                      values == [k \in 1..Len(keys) |-> configs_by_scan[keys[k]]]
                  IN  [raised          |-> "no",
                       loif_setups     |-> d.setups,
                       loif_offsets    |-> d.offsets,
                       scans           |-> scans,
                       scan_keys       |-> keys,
                       configs_by_scan |-> configs_by_scan,
                       configs_by_loif |->
                           [loif \in d.setups |->
                               SelectSeq(values,
                                         LAMBDA w : w.loif_setup = loif)]]

\* The directories drawn.  A directory that does not exist holds nothing; one
\* without exactly one script, or whose script header cannot be read, is
\* drawn with one fixed script.  Of the others, some vary in their VCI
\* documents and scan numbers with LOIF 1 throughout, some vary in their
\* LOIF tables and scans with one VCI document in effect from scan 1, and
\* those of at most one document and one scan vary in every part.
VciDocs ==
    {[k \in 1..Len(q) |-> [scanId |-> k, scanNum |-> q[k]]] :
        q \in SeqsUpTo({NoScanNum} \cup 1..MaxIx, MaxVci)}

ScanLists ==
    SeqsUpTo({EvlaScan(ix, loif, 1) : ix \in 1..MaxIx, loif \in 1..MaxLoif},
             MaxBlocks)

ScanOutcomes ==
    {[raised |-> "no", scans |-> q] : q \in ScanLists}
        \cup {Raise("ParseError"), Raise("IndexError")}

Script(efile, setups, offsets, scans) ==
    [efile |-> efile, setups |-> setups, offsets |-> offsets, scans |-> scans]

OneScript ==
    Script("no", {1}, {1}, [raised |-> "no", scans |-> <<EvlaScan(1, 1, 1)>>])

Directory(exists, n_evla, vci, script) ==
    [exists |-> exists, n_evla |-> n_evla, vci |-> vci,
     efile |-> script.efile, setups |-> script.setups,
     offsets |-> script.offsets, scans |-> script.scans]

UnreadDirectories ==
    {NoDirectory}
    \cup {Directory(TRUE, n, vci, OneScript) : n \in {0, 2}, vci \in VciDocs}
    \cup {Directory(TRUE, 1, <<>>, OneScript)}
    \cup {Directory(TRUE, 1, vci, [OneScript EXCEPT !.efile = e]) :
              vci \in VciDocs \ {<<>>},
              e \in {"ParseError", "ValueError", "KeyError"}}

VciDirectories ==
    {Directory(TRUE, 1, vci, Script("no", {1}, {1}, sc)) :
        vci \in VciDocs \ {<<>>},
        sc \in {o \in ScanOutcomes :
                   \A k \in 1..Len(o.scans) : o.scans[k].loif = 1}}

LoifDirectories ==
    {Directory(TRUE, 1, <<[scanId |-> 1, scanNum |-> 1]>>,
               Script("no", su, of, sc)) :
        su \in SUBSET (1..MaxLoif), of \in SUBSET (1..MaxLoif),
        sc \in ScanOutcomes}

SmallDirectories ==
    {Directory(TRUE, 1, vci, Script("no", su, of, sc)) :
        vci \in {v \in VciDocs : Len(v) = 1},
        su \in SUBSET (1..MaxLoif), of \in SUBSET (1..MaxLoif),
        sc \in {o \in ScanOutcomes : Len(o.scans) <= 1}}

Directories ==
    UnreadDirectories \cup VciDirectories \cup LoifDirectories
        \cup SmallDirectories

InitExec ==
    /\ dir \in Directories
    /\ ex = NoExecution("pending")
    /\ OthersIdle("exec")

\* Execution(path)
Construct ==
    /\ ex.raised = "pending"
    /\ ex' = Execution(dir)
    /\ UNCHANGED dir
    /\ OthersUnchanged("exec")

NextExec == Construct

SpecExec == InitExec /\ [][NextExec]_vars

\* C3: in a constructed Execution, configs_by_scan[i].scan.ix = i and
\* configs_by_scan[i].vci.scanNum is the greatest scanNum of the loaded VCI
\* documents that is <= i.
C3_VciMostRecentAtOrBefore ==
    ex.raised = "no" =>
        \A i \in DOMAIN ex.configs_by_scan :
            LET w    == ex.configs_by_scan[i]
                nums == {dir.vci[k].scanNum : k \in 1..Len(dir.vci)}
            IN  /\ w.scan.ix = i
                /\ w.vci.scanNum \in nums
                /\ w.vci.scanNum <= i
                /\ \A n \in nums : n <= i => n <= w.vci.scanNum

\* C3 witness: a document takes effect at scan 1 and another at scan 2, and
\* both scans are in configs_by_scan.
C3_Witness ==
    /\ ex.raised = "no"
    /\ {1, 2} \subseteq DOMAIN ex.configs_by_scan
    /\ ex.configs_by_scan[2].vci.scanNum = 2
    /\ ex.configs_by_scan[1].vci.scanNum = 1

\* Some scan of the script has no VCI document with scanNum at or before
\* its number.
Unresolved(d) ==
    \E k \in 1..Len(d.scans.scans) :
        \A j \in 1..Len(d.vci) :
            \/ d.vci[j].scanNum = NoScanNum
            \/ d.vci[j].scanNum > d.scans.scans[k].ix

\* C12: when some scan has no VCI document with scanNum <= its number,
\* get_vci_for_scans raises and no Execution is constructed; and in a
\* constructed Execution no scan has a document of greater scanNum than its
\* number.
C12_ResolutionFailsFast ==
    ex.raised # "pending" =>
        /\ Unresolved(dir) =>
               /\ get_vci_for_scans(dir.scans.scans, dir.vci).raised # "no"
               /\ ex.raised # "no"
        /\ ex.raised = "no" =>
               \A i \in DOMAIN ex.configs_by_scan :
                   ex.configs_by_scan[i].vci.scanNum <= i

\* C12 witness: every document has a scanNum, all of them after scan 1,
\* which the script holds; construction has raised ValueError.
C12_Witness ==
    /\ ex.raised = "ValueError"
    /\ dir.vci # <<>>
    /\ \A j \in 1..Len(dir.vci) : dir.vci[j].scanNum > 1
    /\ \E k \in 1..Len(dir.scans.scans) : dir.scans.scans[k].ix = 1

\* C15: a path that does not exist raises FileNotFoundError; a directory
\* with no `.evla` file, more than one `.evla` file or no `.vci` file raises
\* ParseError; and in each of these cases no field of the Execution is set.
C15_InputChecks ==
    ex.raised # "pending" =>
        /\ ~dir.exists => ex = NoExecution("FileNotFoundError")
        /\ (dir.exists /\ (dir.n_evla = 0 \/ dir.n_evla > 1 \/ dir.vci = <<>>))
               => ex = NoExecution("ParseError")

\* C15 witness: a directory of two `.evla` files and a `.vci` file has been
\* refused with ParseError.
C15_Witness ==
    /\ ex.raised = "ParseError"
    /\ dir.exists
    /\ dir.n_evla = 2
    /\ dir.vci # <<>>

\* C19: in a constructed Execution every list of configs_by_loif has a first
\* configuration, also the list of a LOIF that no scan selects.
C19_EveryLoifGroupNonEmpty ==
    ex.raised = "no" =>
        \A loif \in DOMAIN ex.configs_by_loif : ex.configs_by_loif[loif] # <<>>

\* C6: in a constructed Execution the keys of loif_setups are the keys of
\* loif_offsets, and there is at least one; a script whose two key sets
\* differ yields no Execution.
C6_SetupAndOffsetKeysEqual ==
    /\ ex.raised = "no" =>
           /\ ex.loif_setups = ex.loif_offsets
           /\ ex.loif_setups # {}
    /\ (ex.raised # "pending" /\ dir.setups # dir.offsets) => ex.raised # "no"

\* C7: every scan of a constructed Execution has a loif that is a key of
\* loif_setups; and when nothing else is wrong with the directory (the
\* files are there, the script parses, both tables have as many records,
\* every scan has a VCI document) and a scan selects a loif with no setup or
\* no offset record, construction raises ParseError.
OnlyLoifMissing(d) ==
    /\ d.exists /\ d.n_evla = 1 /\ d.vci # <<>> /\ d.efile = "no"
    /\ d.setups # {} /\ d.offsets # {}
    /\ Cardinality(d.setups) = Cardinality(d.offsets)
    /\ d.scans.raised = "no"
    /\ \A k \in 1..Len(d.vci) : d.vci[k].scanNum # NoScanNum
    /\ \A k \in 1..Len(d.scans.scans) :
           \E j \in 1..Len(d.vci) : d.vci[j].scanNum <= d.scans.scans[k].ix
    /\ \E k \in 1..Len(d.scans.scans) :
           \/ d.scans.scans[k].loif \notin d.setups
           \/ d.scans.scans[k].loif \notin d.offsets

C7_MissingLoifIsParseError ==
    /\ ex.raised = "no" =>
           \A k \in 1..Len(ex.scans) : ex.scans[k].loif \in ex.loif_setups
    /\ (ex.raised # "pending" /\ OnlyLoifMissing(dir)) =>
           ex.raised = "ParseError"

\* =========================================================== get_used_flag
\* get_used_flag reads of an Execution only configs_by_loif: the groups in
\* the order of the LOIF table, each the list of its configurations (empty
\* when no scan selects the LOIF, as Execution.__init__ builds it).  A
\* configuration is kept as its VCI document: the base bands in document
\* order, each the list of its sub-bands in document order.  A sub-band is
\* kept as the three frequencies SubBandFreqs derives for it with this
\* configuration and b_max: f_used, f_min = max(f_maxfringe, 30 / tau) and
\* f_max = bw / scale.

\* SubBandFreqs.flag_from_freq / used_flag
used_flag(sf) == mixer_flag_from_freqs(sf.f_used, sf.f_min, sf.f_max)

\* The flags of a list in order: the first that is not OKAY, else OKAY.
RECURSIVE FirstBad(_)
FirstBad(flags) ==
    IF flags = <<>> THEN "OKAY"
    ELSE IF Head(flags) # "OKAY" THEN Head(flags)
    ELSE FirstBad(Tail(flags))

\* The loops of get_used_flag over the sub-bands of one base band, the base
\* bands of one document and the groups of configs_by_loif: the flag (or the
\* exception) that ends the loop, or OKAY when it runs to its end.
RECURSIVE SubbandLoop(_)
SubbandLoop(sbs) ==
    IF sbs = <<>> THEN "OKAY"
    ELSE LET flag == used_flag(Head(sbs))
         IN  IF flag # "OKAY" THEN flag ELSE SubbandLoop(Tail(sbs))

RECURSIVE BasebandLoop(_)
BasebandLoop(bbs) ==
    IF bbs = <<>> THEN "OKAY"
    ELSE LET flag == SubbandLoop(Head(bbs))
         IN  IF flag # "OKAY" THEN flag ELSE BasebandLoop(Tail(bbs))

RECURSIVE GroupLoop(_)
GroupLoop(groups) ==
    IF groups = <<>> THEN "OKAY"
    ELSE IF Head(groups) = <<>> THEN "IndexError"
    ELSE LET flag == BasebandLoop(Head(groups)[1])
         IN  IF flag # "OKAY" THEN flag ELSE GroupLoop(Tail(groups))

\* get_used_flag(ex)
get_used_flag(configs_by_loif) == GroupLoop(configs_by_loif)

\* The sub-bands drawn: f_used inside the window, f_used under the window,
\* an empty window, and a window of one point that f_used misses.
SubBandFreqs(f, lo, hi) == [f_used |-> f, f_min |-> lo, f_max |-> hi]

SubBandCases ==
    {SubBandFreqs(1, 1, 2), SubBandFreqs(0, 1, 2),
     SubBandFreqs(1, 2, 1), SubBandFreqs(0, 1, 1)}

SeqsFromTo(S, n) == SeqsUpTo(S, n) \ {<<>>}

\* The documents of 1..nbb base bands of 1..nsb sub-bands each, and the
\* groups of configs_by_loif: no configuration, or one with such a document.
VciBodies(nbb, nsb) == SeqsFromTo(SeqsFromTo(SubBandCases, nsb), nbb)

LoifGroups(nbb, nsb) == {<<>>} \cup {<<doc>> : doc \in VciBodies(nbb, nsb)}

InitFlag ==
    /\ flag_ex \in SeqsFromTo(LoifGroups(MaxBb, MaxSb), MaxLoif)
    /\ flag_result = "pending"
    /\ OthersIdle("flag")

\* One call of get_used_flag.
GetUsedFlag ==
    /\ flag_result = "pending"
    /\ flag_result' = get_used_flag(flag_ex)
    /\ UNCHANGED flag_ex
    /\ OthersUnchanged("flag")

NextFlag == GetUsedFlag

SpecFlag == InitFlag /\ [][NextFlag]_vars

\* The sub-bands of the representative (first) configuration of every LOIF
\* group, in group, base band, sub-band order.
RepresentativeSubbands(groups) ==
    Flatten([g \in 1..Len(groups) |->
                   IF groups[g] = <<>> THEN <<>>
                   ELSE Flatten(groups[g][1])])

\* C5: get_used_flag returns OKAY exactly when used_flag is OKAY for every
\* sub-band of every base band of the first configuration of every LOIF
\* group, and otherwise returns the used_flag of the first sub-band, in
\* group, base band, sub-band order, whose used_flag is not OKAY.
C5_FirstNonOkayFlag ==
    flag_result # "pending" =>
        LET sbs   == RepresentativeSubbands(flag_ex)
            flags == [k \in 1..Len(sbs) |-> used_flag(sbs[k])]
        IN  /\ flag_result \in MixerFlag
            /\ flag_result = "OKAY" <=>
                   \A k \in 1..Len(flags) : flags[k] = "OKAY"
            /\ flag_result = FirstBad(flags)

\* ===================================================== read_all_executions
\* A path of the batch: whether its name is in KNOWN_INVALID, and the
\* directory it names.  get_program_paths globs the paths, so each exists.
\* The directories of a batch are those of Directories with at most one VCI
\* document, one scan and one LOIF.
BatchDirectories ==
    {d \in UnreadDirectories \cup SmallDirectories :
        /\ d.exists
        /\ Len(d.vci) <= 1
        /\ d.setups \subseteq {1}
        /\ d.offsets \subseteq {1}}

BatchPaths == [known_invalid : BOOLEAN, dir : BatchDirectories]

\* None, the value parse_exec_if_valid returns for a path it skips.
None == NoExecution("None")

InitBatch ==
    /\ batch_paths \in SeqsFromTo(BatchPaths, MaxPaths)
    /\ batch_execs = <<>>
    /\ batch_warned = {}
    /\ batch_out = [state |-> "running", list |-> <<>>]
    /\ OthersIdle("batch")

\* The path read next by the list comprehension of read_all_executions.
BatchNext == Len(batch_execs) + 1

BatchReading ==
    /\ batch_out.state = "running"
    /\ BatchNext <= Len(batch_paths)

\* parse_exec_if_valid: path.name in KNOWN_INVALID; warn and return None.
ItemKnownInvalid ==
    /\ BatchReading
    /\ batch_paths[BatchNext].known_invalid
    /\ batch_warned' = batch_warned \cup {BatchNext}
    /\ batch_execs' = Append(batch_execs, None)
    /\ UNCHANGED <<batch_paths, batch_out>>
    /\ OthersUnchanged("batch")

\* parse_exec_if_valid: Execution(path) is built and returned.
ItemBuilt ==
    /\ BatchReading
    /\ ~batch_paths[BatchNext].known_invalid
    /\ Execution(batch_paths[BatchNext].dir).raised = "no"
    /\ batch_execs' = Append(batch_execs, Execution(batch_paths[BatchNext].dir))
    /\ UNCHANGED <<batch_paths, batch_warned, batch_out>>
    /\ OthersUnchanged("batch")

\* The exceptions parse_exec_if_valid catches: except ParseError.
Caught == {"ParseError"}

\* parse_exec_if_valid: Execution(path) raises an exception that is caught;
\* warn and return None.
ItemSkipped ==
    /\ BatchReading
    /\ ~batch_paths[BatchNext].known_invalid
    /\ Execution(batch_paths[BatchNext].dir).raised \in Caught
    /\ batch_warned' = batch_warned \cup {BatchNext}
    /\ batch_execs' = Append(batch_execs, None)
    /\ UNCHANGED <<batch_paths, batch_out>>
    /\ OthersUnchanged("batch")

\* parse_exec_if_valid: Execution(path) raises any other exception, which
\* leaves parse_exec_if_valid and read_all_executions (with nproc > 1,
\* pool.map re-raises it in the caller as well).
ItemRaises ==
    /\ BatchReading
    /\ ~batch_paths[BatchNext].known_invalid
    /\ Execution(batch_paths[BatchNext].dir).raised \notin Caught \cup {"no"}
    /\ batch_out' = [state |-> Execution(batch_paths[BatchNext].dir).raised,
                     list |-> <<>>]
    /\ UNCHANGED <<batch_paths, batch_execs, batch_warned>>
    /\ OthersUnchanged("batch")

\* return [ex for ex in execs if ex is not None]
BatchReturn ==
    /\ batch_out.state = "running"
    /\ BatchNext > Len(batch_paths)
    /\ batch_out' = [state |-> "returned",
                     list |-> SelectSeq(batch_execs, LAMBDA e : e # None)]
    /\ UNCHANGED <<batch_paths, batch_execs, batch_warned>>
    /\ OthersUnchanged("batch")

NextBatch ==
    \/ ItemKnownInvalid
    \/ ItemBuilt
    \/ ItemSkipped
    \/ ItemRaises
    \/ BatchReturn

SpecBatch == InitBatch /\ [][NextBatch]_vars

\* The outcome of constructing the Execution of path k.
Outcome(k) == Execution(batch_paths[k].dir).raised

\* The Executions of the paths that can be built, in path order.
BuiltExecutions ==
    LET ok == SelectSeq([k \in 1..Len(batch_paths) |-> k],
                        LAMBDA k : /\ ~batch_paths[k].known_invalid
                                   /\ Outcome(k) = "no")
    IN  [j \in 1..Len(ok) |-> Execution(batch_paths[ok[j]].dir)]

\* C8: in a batch whose failing items fail with ParseError or ValueError,
\* no exception leaves read_all_executions; every such item is skipped with
\* a warning; and the list returned holds the Executions that were built.
C8_BatchSkipsParseAndValueErrors ==
    (\A k \in 1..Len(batch_paths) :
         Outcome(k) \in {"no", "ParseError", "ValueError"}) =>
        /\ batch_out.state \in {"running", "returned"}
        /\ \A k \in 1..Len(batch_execs) :
               Outcome(k) # "no" => (batch_execs[k] = None /\ k \in batch_warned)
        /\ batch_out.state = "returned" => batch_out.list = BuiltExecutions

\* ============================================ iter_valid_unique_subbands
\* all_invalid and to_pandas read of an Execution only configs_by_loif: the
\* groups in the order of the LOIF table.  A configuration is kept as the
\* mode of its LoIfSetup and its VCI document; a base band as whether its
\* name is a key of _bb_map and the list of its sub-bands; a sub-band as its
\* is_valid.  The other attributes to_pandas reads are taken to be there.

\* SubBand.is_valid: false for a malformed or placeholder sub-band.
is_valid(subband) == subband.is_valid

\* The (config, baseband, subband) triples of one configuration, base bands
\* and sub-bands in document order.
TriplesOf(config) ==
    Flatten([b \in 1..Len(config.vci) |->
                [k \in 1..Len(config.vci[b].subbands) |->
                    [config   |-> config,
                     baseband |-> config.vci[b],
                     subband  |-> config.vci[b].subbands[k]]]])

\* Execution.iter_valid_unique_subbands, run to its end: ws[0] of every
\* group is taken before the first triple is yielded.
iter_valid_unique_subbands(configs_by_loif) ==
    IF \E g \in 1..Len(configs_by_loif) : configs_by_loif[g] = <<>>
    THEN [raised |-> "IndexError", items |-> <<>>]
    ELSE [raised |-> "no",
          items  |-> SelectSeq(Flatten([g \in 1..Len(configs_by_loif) |->
                                           TriplesOf(configs_by_loif[g][1])]),
                               LAMBDA t : is_valid(t.subband))]

\* Execution.all_invalid: only StopIteration is caught.
all_invalid(configs_by_loif) ==
    LET it == iter_valid_unique_subbands(configs_by_loif)
    IN  IF it.raised # "no" THEN it.raised
        ELSE IF it.items = <<>> THEN "True" ELSE "False"

\* LoIfSetup.freq_from_subband over the triples in order (the f_sky column
\* of to_pandas): assert self.mode, then _bb_map[subband.baseband.name].
RECURSIVE freq_from_subbands(_)
freq_from_subbands(items) ==
    IF items = <<>> THEN "table"
    ELSE IF ~Head(items).config.mode THEN "AssertionError"
    ELSE IF ~Head(items).baseband.named THEN "KeyError"
    ELSE freq_from_subbands(Tail(items))

\* Execution.to_pandas
to_pandas(configs_by_loif) ==
    LET ex_items == iter_valid_unique_subbands(configs_by_loif)
    IN  IF ex_items.raised # "no" THEN ex_items.raised
        ELSE IF ex_items.items = <<>> THEN "ParseError"
        ELSE freq_from_subbands(ex_items.items)

\* The Executions drawn: 1..nloif groups, each empty or of one configuration
\* of 1..nbb base bands of 1..nsb sub-bands.
ValidSubBands == [is_valid : BOOLEAN]

ValidBaseBands(nsb) ==
    [named : BOOLEAN, subbands : SeqsFromTo(ValidSubBands, nsb)]

ValidConfigs(nbb, nsb) ==
    [mode : BOOLEAN, vci : SeqsFromTo(ValidBaseBands(nsb), nbb)]

ValidGroups(nbb, nsb) ==
    {<<>>} \cup {<<w>> : w \in ValidConfigs(nbb, nsb)}

InitValid ==
    /\ valid_ex \in SeqsFromTo(ValidGroups(MaxBb, MaxSb), MaxLoif)
    /\ all_invalid_result = "pending"
    /\ to_pandas_result = "pending"
    /\ OthersIdle("valid")

\* ex.all_invalid is read.
ReadAllInvalid ==
    /\ all_invalid_result = "pending"
    /\ all_invalid_result' = all_invalid(valid_ex)
    /\ UNCHANGED <<valid_ex, to_pandas_result>>
    /\ OthersUnchanged("valid")

\* ex.to_pandas() is called.
ToPandas ==
    /\ to_pandas_result = "pending"
    /\ to_pandas_result' = to_pandas(valid_ex)
    /\ UNCHANGED <<valid_ex, all_invalid_result>>
    /\ OthersUnchanged("valid")

NextValid ==
    \/ ReadAllInvalid
    \/ ToPandas

SpecValid == InitValid /\ [][NextValid]_vars

\* Every sub-band of the representative (first) configuration of every
\* LOIF group that has one is not valid.
NoValidSubband(groups) ==
    \A g \in 1..Len(groups) :
        groups[g] # <<>> =>
            \A b \in 1..Len(groups[g][1].vci) :
                \A k \in 1..Len(groups[g][1].vci[b].subbands) :
                    ~groups[g][1].vci[b].subbands[k].is_valid

\* C11: all_invalid is true exactly when no sub-band of any representative
\* configuration is valid (and false otherwise), and exactly then to_pandas
\* raises ParseError.
C11_AllInvalidIffNoValidSubband ==
    /\ all_invalid_result # "pending" =>
           all_invalid_result = (IF NoValidSubband(valid_ex)
                                 THEN "True" ELSE "False")
    /\ to_pandas_result # "pending" =>
           (to_pandas_result = "ParseError" <=> NoValidSubband(valid_ex))

\* =============================================================== LoIfSetup
\* A matched record is kept as its mode and its four frequency fields, each
\* a literal number of MHz (whole numbers here, of either sign); the flag,
\* the receiver and the tuning offset are not kept.

\* LoIfSetup.parse_frequency(s) of a literal: float(s) * 1e6, MHz to Hz.
parse_frequency(s) == s * 1000000

\* LoIfSetup.__init__(group)
LoIfSetup(group) ==
    LET bb_ac1  == parse_frequency(group.ac1)
        bb_ac2  == parse_frequency(group.ac2)
        bb_bd1  == parse_frequency(group.bd1)
        bb_bd2  == parse_frequency(group.bd2)
        is8     == bb_ac2 + bb_bd2 = 0
    IN  [built |-> TRUE, mode |-> group.mode,
         bb_ac1 |-> bb_ac1, bb_ac2 |-> bb_ac2,
         bb_bd1 |-> bb_bd1, bb_bd2 |-> bb_bd2,
         is_8bit |-> is8, is_3bit |-> ~is8]

InitSetup ==
    /\ setup_group \in [mode : BOOLEAN,
                        ac1 : 0..MaxFreq, ac2 : -MaxFreq..MaxFreq,
                        bd1 : {0}, bd2 : -MaxFreq..MaxFreq]
    /\ loif_setup = NoLoIfSetup
    /\ OthersIdle("setup")

\* One LoIfSetup is built from the record drawn.
BuildLoIfSetup ==
    /\ ~loif_setup.built
    /\ loif_setup' = LoIfSetup(setup_group)
    /\ UNCHANGED setup_group
    /\ OthersUnchanged("setup")

NextSetup == BuildLoIfSetup

SpecSetup == InitSetup /\ [][NextSetup]_vars

\* C16: is_8bit is true exactly when bb_ac2 and bb_bd2 are both zero,
\* whatever their signs, and is_3bit is its negation.
C16_EightBitIffSecondPairZero ==
    loif_setup.built =>
        /\ loif_setup.is_8bit <=> (loif_setup.bb_ac2 = 0 /\ loif_setup.bb_bd2 = 0)
        /\ loif_setup.is_3bit <=> ~loif_setup.is_8bit

=============================================================================
